---- MODULE Spec2Model ----
(***************************************************************************)
(* A model of scripts/calculate_mean_reqs_per_sec.py: the event-log        *)
(* reader (parse_events_file), the scan aggregation and statistics of      *)
(* main, and the flat helper calculate_mean_reqs_per_sec.                  *)
(*                                                                         *)
(* A run of main is a sequential process: pc is its position.  An uncaught *)
(* Python exception ends the interpreter with exit status 1; sys.exit(1)   *)
(* does the same; falling off the end of main ends it with status 0.       *)
(***************************************************************************)
EXTENDS Integers, Sequences, FiniteSets, TLC

\* Bounds of the model.
MaxLen == 4        \* lines of an event log given to main
MaxFlatLen == 3    \* events of a list given to calculate_mean_reqs_per_sec
MaxTime == 2       \* clock readings 0..MaxTime (seconds)

VARIABLES
    exists,           \* whether the input file exists
    file,             \* its lines, in file order
    pc,               \* position of the run
    events,           \* parse_events_file's result / the flat function's argument
    idx,              \* 1-based position of the loop over events
    scan_groups,      \* the insertion-ordered dict of main, as a list of entries
    placed,           \* the key computed for each event processed so far
    completed_scans,  \* main's filtered list
    stats,            \* the values main computed for the report
    out,              \* what was printed to standard output, as line tags
    status,           \* exit status (-1 while running)
    exc,              \* the uncaught exception that ended the run ("" if none)
    timestamps,       \* the flat function's local list
    total_requests,   \* the flat function's local sum
    ret               \* the flat function's return value

vars == <<exists, file, pc, events, idx, scan_groups, placed, completed_scans,
          stats, out, status, exc, timestamps, total_requests, ret>>

---------------------------------------------------------------------------
(* Values *)

\* Python's None for start_time / end_time; a datetime is <<utc, aware>>.
None == <<>>

\* A float that came out of a division is kept exact, as num/den (den > 0).
Rat(n, d) == [num |-> n, den |-> d]
Float(n) == Rat(n, 1)
RatEq(a, b) == a.num * b.den = b.num * a.den

\* A time string is a clock reading and what follows it: "Z", an offset
\* ("+00:00", "+00:00:01"), nothing (a naive timestamp) or text that is no
\* timestamp at all ("garbage").
TimeStr(c, z) == [clock |-> c, zone |-> z]

\* str.replace("Z", "+00:00")
ReplaceZ(s) == IF s.zone = "Z" THEN [s EXCEPT !.zone = "+00:00"] ELSE s

\* Whether datetime.fromisoformat accepts the string (else ValueError).
IsIsoFormat(s) == s.zone \in {"+00:00", "+00:00:01", ""}

\* datetime.fromisoformat: an aware datetime is held by its UTC instant, a
\* naive one by its clock reading.
FromIsoFormat(s) ==
    CASE s.zone = "+00:00" -> <<s.clock, TRUE>>
      [] s.zone = "+00:00:01" -> <<s.clock - 1, TRUE>>
      [] OTHER -> <<s.clock, FALSE>>

ParseTime(e) == FromIsoFormat(ReplaceZ(e.time))
TimeParses(e) == IsIsoFormat(ReplaceZ(e.time))

\* Comparing or subtracting an aware and a naive datetime raises TypeError.
Comparable(ts) == \A a \in ts, b \in ts : a[2] = b[2]

Has(e, f) == f \in DOMAIN e

RECURSIVE SeqSum(_)
SeqSum(s) == IF s = <<>> THEN 0 ELSE Head(s) + SeqSum(Tail(s))

\* min() and max() of a non-empty list
RECURSIVE SeqMin(_)
SeqMin(s) ==
    IF Len(s) = 1 THEN s[1]
    ELSE LET m == SeqMin(Tail(s)) IN IF m < s[1] THEN m ELSE s[1]

RECURSIVE SeqMax(_)
SeqMax(s) ==
    IF Len(s) = 1 THEN s[1]
    ELSE LET m == SeqMax(Tail(s)) IN IF m > s[1] THEN m ELSE s[1]

Range(s) == {s[k] : k \in 1..Len(s)}

SeqsUpTo(S, n) == UNION {[1..k -> S] : k \in 0..n}

---------------------------------------------------------------------------
(* parse_events_file *)

Blank == [kind |-> "blank"]
Garbage == [kind |-> "garbage"]
Json(e) == [kind |-> "json", obj |-> e]

\* the lines that survive line.strip()
RECURSIVE NonBlank(_)
NonBlank(ls) ==
    IF ls = <<>> THEN <<>>
    ELSE IF Head(ls).kind = "blank" THEN NonBlank(Tail(ls))
    ELSE <<Head(ls)>> \o NonBlank(Tail(ls))

AllParse(ls) == \A k \in 1..Len(ls) : ls[k].kind # "garbage"

Loaded(ls) == [k \in 1..Len(NonBlank(ls)) |-> NonBlank(ls)[k].obj]

---------------------------------------------------------------------------
(* main: grouping *)

\* key = f"{event['template_id']}_{event['target']}"
Key(e) == e.template_id \o "_" \o e.target

HasKey(groups, k) == \E g \in Range(groups) : g.key = k

KeyIndex(groups, k) == CHOOSE n \in 1..Len(groups) : groups[n].key = k

\* the dict entry made on first sight of a key
NewGroup(e) ==
    [key |-> Key(e),
     template_id |-> e.template_id,
     target |-> e.target,
     template_path |-> e.template_path,
     max_requests |-> e.max_requests,
     start_time |-> None,
     end_time |-> None]

\* Mutant of Inserted: every event of a key rewrites the group's
\* template_path and max_requests.
InsertedOverwrites(groups, e) ==
    IF ~HasKey(groups, Key(e)) THEN Append(groups, NewGroup(e))
    ELSE [groups EXCEPT
            ![KeyIndex(groups, Key(e))].template_path =
                IF Has(e, "template_path") THEN e.template_path ELSE @,
            ![KeyIndex(groups, Key(e))].max_requests =
                IF Has(e, "max_requests") THEN e.max_requests ELSE @]

\* "if key not in scan_groups: scan_groups[key] = {...}"
Inserted(groups, e) ==
    IF HasKey(groups, Key(e)) THEN groups ELSE Append(groups, NewGroup(e))

\* Mutant of Stamped: a timestamp that is set is kept.
StampedKeepsFirst(groups, e) ==
    LET n == KeyIndex(groups, Key(e)) IN
    CASE e.event_type = "scan_start" /\ groups[n].start_time = None ->
             [groups EXCEPT ![n].start_time = ParseTime(e)]
      [] e.event_type = "scan_end" /\ groups[n].end_time = None ->
             [groups EXCEPT ![n].end_time = ParseTime(e)]
      [] OTHER -> groups

\* the assignment of start_time / end_time by event_type
Stamped(groups, e) ==
    LET n == KeyIndex(groups, Key(e)) IN
    CASE e.event_type = "scan_start" ->
             [groups EXCEPT ![n].start_time = ParseTime(e)]
      [] e.event_type = "scan_end" ->
             [groups EXCEPT ![n].end_time = ParseTime(e)]
      [] OTHER -> groups

\* Where the loop body raises.  The lookups happen in this order:
\* template_id and target for the key; template_path and max_requests only
\* when the key is new; event_type; time only for scan_start and scan_end.
RaisesAtKey(e) == ~Has(e, "template_id") \/ ~Has(e, "target")
RaisesAtInsert(groups, e) ==
    /\ ~HasKey(groups, Key(e))
    /\ ~Has(e, "template_path") \/ ~Has(e, "max_requests")
RaisesAtType(e) == ~Has(e, "event_type")
ReadsTime(e) == e.event_type \in {"scan_start", "scan_end"}
RaisesAtTime(e) == ReadsTime(e) /\ ~Has(e, "time")
\* Mutant of RaisesAtParse: only a scan_start's timestamp is validated.
RaisesAtParseStartOnly(e) == e.event_type = "scan_start" /\ ~TimeParses(e)
RaisesAtParse(e) == ReadsTime(e) /\ ~TimeParses(e)

\* the exception the loop body ends with ("" when it completes)
BodyExc(groups, e) ==
    IF RaisesAtKey(e) THEN "KeyError"
    ELSE IF RaisesAtInsert(groups, e) THEN "KeyError"
    ELSE IF RaisesAtType(e) THEN "KeyError"
    ELSE IF RaisesAtTime(e) THEN "KeyError"
    ELSE IF RaisesAtParse(e) THEN "ValueError"
    ELSE ""

\* the dict the loop body leaves behind, raising or not
BodyGroups(groups, e) ==
    IF RaisesAtKey(e) THEN groups
    ELSE IF RaisesAtInsert(groups, e) THEN groups
    ELSE IF BodyExc(groups, e) # "" THEN Inserted(groups, e)
    ELSE Stamped(Inserted(groups, e), e)

\* Mutant of IsCompleted: the end of the scan is not asked for.
IsCompletedStartOnly(g) == g.start_time # None

\* "if scan['start_time'] and scan['end_time']": a datetime is always truthy
IsCompleted(g) == g.start_time # None /\ g.end_time # None

---------------------------------------------------------------------------
(* main: statistics *)

RECURSIVE AllTimes(_)
AllTimes(scans) ==
    IF scans = <<>> THEN <<>>
    ELSE <<Head(scans).start_time, Head(scans).end_time>> \o AllTimes(Tail(scans))

Seconds(ts) == [k \in 1..Len(ts) |-> ts[k][1]]

Durations(scans) ==
    [k \in 1..Len(scans) |-> scans[k].end_time[1] - scans[k].start_time[1]]

MaxRequests(scans) == [k \in 1..Len(scans) |-> scans[k].max_requests]

\* Mutant of MeanReqsPerSec: a span of 0 gives 0.0.
MeanReqsPerSecZeroOnZeroSpan(total, seconds) ==
    IF seconds > 0 THEN Rat(total, seconds) ELSE Float(0)

\* "if total_seconds > 0: total / total_seconds  else: float(total)"
MeanReqsPerSec(total, seconds) ==
    IF seconds > 0 THEN Rat(total, seconds) ELSE Float(total)

NoStats == [computed |-> FALSE]

Statistics(scans) ==
    LET total == SeqSum(MaxRequests(scans))
        secs == Seconds(AllTimes(scans))
        span == SeqMax(secs) - SeqMin(secs)
        durs == Durations(scans)
    IN [computed |-> TRUE,
        total_requests |-> total,
        total_seconds |-> span,
        mean_reqs_per_sec |-> MeanReqsPerSec(total, span),
        avg_scan_duration |-> Rat(SeqSum(durs), Len(durs)),
        shortest |-> SeqMin(durs),
        longest |-> SeqMax(durs)]

ResultLines == <<"results", "total_requests", "time_span", "mean_reqs_per_sec",
                 "additional", "avg_scan_duration", "shortest", "longest">>

---------------------------------------------------------------------------
(* main: the run *)

Exit(code, e) == /\ pc' = "exited" /\ status' = code /\ exc' = e

FlatUnused == UNCHANGED <<timestamps, total_requests, ret>>

\* lines 73-74, then parse_events_file fails: the file does not exist
ParseFileNotFound ==
    /\ pc = "start"
    /\ ~exists
    /\ out' = out \o <<"analyzing", "rule", "error_file_not_found">>
    /\ Exit(1, "")
    /\ UNCHANGED <<exists, file, events, idx, scan_groups, placed,
                   completed_scans, stats>>
    /\ FlatUnused

\* Mutant of ParseJSONDecodeError: the error is printed and the run goes on
\* with the lines read before it.
ParseJSONDecodeErrorGoesOn ==
    /\ pc = "start"
    /\ exists
    /\ ~AllParse(file)
    /\ LET bad == CHOOSE k \in 1..Len(file) :
                      /\ file[k].kind = "garbage"
                      /\ \A j \in 1..(k - 1) : file[j].kind # "garbage"
       IN events' = Loaded(SubSeq(file, 1, bad - 1))
    /\ out' = out \o <<"analyzing", "rule", "error_parsing_json", "total_events">>
    /\ idx' = 1
    /\ pc' = "group"
    /\ UNCHANGED <<exists, file, scan_groups, placed, completed_scans, stats,
                   status, exc>>
    /\ FlatUnused

\* lines 73-74, then parse_events_file fails: a non-blank line is not JSON
ParseJSONDecodeError ==
    /\ pc = "start"
    /\ exists
    /\ ~AllParse(file)
    /\ out' = out \o <<"analyzing", "rule", "error_parsing_json">>
    /\ Exit(1, "")
    /\ UNCHANGED <<exists, file, events, idx, scan_groups, placed,
                   completed_scans, stats>>
    /\ FlatUnused

\* lines 73-78: the whole file parsed
ParseEventsFile ==
    /\ pc = "start"
    /\ exists
    /\ AllParse(file)
    /\ events' = Loaded(file)
    /\ out' = out \o <<"analyzing", "rule", "total_events">>
    /\ idx' = 1
    /\ pc' = "group"
    /\ UNCHANGED <<exists, file, scan_groups, placed, completed_scans, stats,
                   status, exc>>
    /\ FlatUnused

\* lines 82-101: one turn of the loop that completes
GroupEvent ==
    /\ pc = "group"
    /\ idx <= Len(events)
    /\ BodyExc(scan_groups, events[idx]) = ""
    /\ scan_groups' = BodyGroups(scan_groups, events[idx])
    /\ placed' = Append(placed, Key(events[idx]))
    /\ idx' = idx + 1
    /\ UNCHANGED <<exists, file, pc, events, completed_scans, stats, out,
                   status, exc>>
    /\ FlatUnused

\* Mutant of GroupEventRaises: the exception is swallowed and the loop goes
\* on with the next event.
GroupEventSkips ==
    /\ pc = "group"
    /\ idx <= Len(events)
    /\ BodyExc(scan_groups, events[idx]) # ""
    /\ scan_groups' = BodyGroups(scan_groups, events[idx])
    /\ placed' = Append(placed, "")
    /\ idx' = idx + 1
    /\ UNCHANGED <<exists, file, pc, events, completed_scans, stats, out,
                   status, exc>>
    /\ FlatUnused

\* lines 82-101: one turn of the loop that raises (uncaught: exit status 1)
GroupEventRaises ==
    /\ pc = "group"
    /\ idx <= Len(events)
    /\ BodyExc(scan_groups, events[idx]) # ""
    /\ scan_groups' = BodyGroups(scan_groups, events[idx])
    /\ Exit(1, BodyExc(scan_groups, events[idx]))
    /\ UNCHANGED <<exists, file, events, idx, placed, completed_scans, stats,
                   out>>
    /\ FlatUnused

\* lines 104-111
FilterCompleted ==
    /\ pc = "group"
    /\ idx > Len(events)
    /\ completed_scans' = SelectSeq(scan_groups, IsCompleted)
    /\ out' = out \o <<"unique_scans", "completed_scans">>
    /\ pc' = "stats"
    /\ UNCHANGED <<exists, file, events, idx, scan_groups, placed, stats,
                   status, exc>>
    /\ FlatUnused

\* lines 114-147
ReportStatistics ==
    /\ pc = "stats"
    /\ completed_scans # <<>>
    /\ Comparable(Range(AllTimes(completed_scans)))
    /\ stats' = Statistics(completed_scans)
    /\ out' = out \o ResultLines
    /\ Exit(0, "")
    /\ UNCHANGED <<exists, file, events, idx, scan_groups, placed,
                   completed_scans>>
    /\ FlatUnused

\* line 122: min() over aware and naive datetimes raises TypeError
ReportRaises ==
    /\ pc = "stats"
    /\ completed_scans # <<>>
    /\ ~Comparable(Range(AllTimes(completed_scans)))
    /\ Exit(1, "TypeError")
    /\ UNCHANGED <<exists, file, events, idx, scan_groups, placed,
                   completed_scans, stats, out>>
    /\ FlatUnused

\* Mutant of ReportNoCompleted: no data is reported as a failure.
ReportNoCompletedFails ==
    /\ pc = "stats"
    /\ completed_scans = <<>>
    /\ out' = out \o <<"no_completed_scans">>
    /\ Exit(1, "")
    /\ UNCHANGED <<exists, file, events, idx, scan_groups, placed,
                   completed_scans, stats>>
    /\ FlatUnused

\* lines 149-150
ReportNoCompleted ==
    /\ pc = "stats"
    /\ completed_scans = <<>>
    /\ out' = out \o <<"no_completed_scans">>
    /\ Exit(0, "")
    /\ UNCHANGED <<exists, file, events, idx, scan_groups, placed,
                   completed_scans, stats>>
    /\ FlatUnused

---------------------------------------------------------------------------
(* calculate_mean_reqs_per_sec, called on the list held in events *)

NoReturn == [returned |-> FALSE]
Return(r) == [returned |-> TRUE, value |-> r]

\* Mutant of GetMaxRequests: an absent max_requests counts 0.
GetMaxRequestsDefaultZero(e) == IF Has(e, "max_requests") THEN e.max_requests ELSE 0

\* event.get("max_requests", 1)
GetMaxRequests(e) == IF Has(e, "max_requests") THEN e.max_requests ELSE 1

\* the exception one turn of the loop ends with ("" when it completes)
FlatExc(e) ==
    IF ~Has(e, "time") THEN "KeyError"
    ELSE IF ~TimeParses(e) THEN "ValueError"
    ELSE ""

\* lines 51-61
FlatMean(total, ts) ==
    LET secs == Seconds(ts)
        total_seconds == SeqMax(secs) - SeqMin(secs)
    IN IF total_seconds = 0 THEN Float(total) ELSE Rat(total, total_seconds)

MainUnused ==
    UNCHANGED <<exists, file, scan_groups, placed, completed_scans, stats, out,
                status>>

\* lines 32-33
FlatEmpty ==
    /\ pc = "flat_call"
    /\ events = <<>>
    /\ ret' = Return(Float(0))
    /\ pc' = "returned"
    /\ UNCHANGED <<events, idx, exc, timestamps, total_requests>>
    /\ MainUnused

\* lines 36-37
FlatEnter ==
    /\ pc = "flat_call"
    /\ events # <<>>
    /\ timestamps' = <<>>
    /\ total_requests' = 0
    /\ idx' = 1
    /\ pc' = "flat_loop"
    /\ UNCHANGED <<events, exc, ret>>
    /\ MainUnused

\* lines 39-45: one turn of the loop that completes
FlatStep ==
    /\ pc = "flat_loop"
    /\ idx <= Len(events)
    /\ FlatExc(events[idx]) = ""
    /\ timestamps' = Append(timestamps, ParseTime(events[idx]))
    /\ total_requests' = total_requests + GetMaxRequests(events[idx])
    /\ idx' = idx + 1
    /\ UNCHANGED <<pc, events, exc, ret>>
    /\ MainUnused

\* line 41 raises
FlatStepRaises ==
    /\ pc = "flat_loop"
    /\ idx <= Len(events)
    /\ FlatExc(events[idx]) # ""
    /\ exc' = FlatExc(events[idx])
    /\ pc' = "raised"
    /\ UNCHANGED <<events, idx, timestamps, total_requests, ret>>
    /\ MainUnused

\* lines 48-49
FlatTooFew ==
    /\ pc = "flat_loop"
    /\ idx > Len(events)
    /\ Len(timestamps) < 2
    /\ ret' = Return(Float(0))
    /\ pc' = "returned"
    /\ UNCHANGED <<events, idx, exc, timestamps, total_requests>>
    /\ MainUnused

\* line 51: min() over aware and naive datetimes raises TypeError
FlatMinRaises ==
    /\ pc = "flat_loop"
    /\ idx > Len(events)
    /\ Len(timestamps) >= 2
    /\ ~Comparable(Range(timestamps))
    /\ exc' = "TypeError"
    /\ pc' = "raised"
    /\ UNCHANGED <<events, idx, timestamps, total_requests, ret>>
    /\ MainUnused

\* lines 51-61
FlatReturn ==
    /\ pc = "flat_loop"
    /\ idx > Len(events)
    /\ Len(timestamps) >= 2
    /\ Comparable(Range(timestamps))
    /\ ret' = Return(FlatMean(total_requests, timestamps))
    /\ pc' = "returned"
    /\ UNCHANGED <<events, idx, exc, timestamps, total_requests>>
    /\ MainUnused

---------------------------------------------------------------------------
(* The logs main is run on *)

Ev(t, ty, tid, tgt, path, mr) ==
    [time |-> t, event_type |-> ty, template_id |-> tid, target |-> tgt,
     template_path |-> path, max_requests |-> mr]

\* the record without one of its fields
Without(e, f) == [x \in DOMAIN e \ {f} |-> e[x]]

Clocks == 0..MaxTime
Lifecycle == {"scan_start", "scan_end"}
AnyType == Lifecycle \cup {"progress"}

\* two scans that start and end at the first or the last clock reading, with
\* a request budget per target
TimingLines ==
    {Json(Ev(TimeStr(c, "Z"), ty, "a", tgt, "p", IF tgt = "c" THEN 3 ELSE 2)) :
        c \in {0, MaxTime}, ty \in Lifecycle, tgt \in {"c", "b_c"}}

\* one scan that starts at every clock reading and ends at the first or the
\* last, and an event of another type
TypeLines ==
    {Json(Ev(TimeStr(c, "Z"), "scan_start", "a", "c", "p", 2)) : c \in Clocks}
    \cup {Json(Ev(TimeStr(c, "Z"), "scan_end", "a", "c", "p", 2)) : c \in {0, MaxTime}}
    \cup {Json(Ev(TimeStr(0, "Z"), "progress", "a", "c", "p", 2))}

\* (template_id, target) pairs whose joined keys are "a_c" and, twice,
\* "a_b_c"
KeyLines ==
    {Json(Ev(TimeStr(IF ty = "scan_start" THEN 0 ELSE MaxTime, "Z"), ty, d[1], d[2], "p", 2)) :
        ty \in Lifecycle, d \in {<<"a", "c">>, <<"a", "b_c">>, <<"a_b", "c">>}}

\* one scan whose events disagree on the descriptive fields
FieldLines ==
    {Json(Ev(TimeStr(IF ty = "scan_start" THEN 0 ELSE MaxTime, "Z"), ty, "a", "c", d[1], d[2])) :
        ty \in AnyType, d \in {<<"p", 1>>, <<"q", 2>>}}

\* blank lines and lines that are not JSON
RawLines ==
    {Blank, Garbage} \cup
    {Json(Ev(TimeStr(IF ty = "scan_start" THEN 0 ELSE MaxTime, "Z"), ty, "a", "c", "p", 2)) :
        ty \in Lifecycle}

\* the same instant written three ways, and a naive timestamp
ZoneLines ==
    {Json(Ev(t, ty, "a", "c", "p", 2)) :
        ty \in Lifecycle,
        t \in {TimeStr(1, "Z"), TimeStr(2, "+00:00:01"), TimeStr(1, "")}}

\* a time field that is no timestamp
BadTimeLines ==
    {Json(Ev(t, ty, "a", "c", "p", 2)) :
        ty \in AnyType, t \in {TimeStr(0, "Z"), TimeStr(0, "garbage")}}

\* records that lack a field
Full(ty, tgt) ==
    Ev(TimeStr(IF ty = "scan_start" THEN 0 ELSE MaxTime, "Z"), ty, "a", tgt, "p", 2)

\* ... one of the fields every turn of the loop looks up, or time
LackReadLines ==
    {Json(Full(ty, "c")) : ty \in AnyType} \cup
    {Json(Without(Full(ty, "c"), "time")) : ty \in {"scan_end", "progress"}} \cup
    {Json(Without(Full("progress", "c"), "event_type"))}

\* ... one of the fields of the key
LackKeyLines ==
    {Json(Full(ty, "c")) : ty \in AnyType} \cup
    {Json(Without(Full("progress", "c"), f)) : f \in {"template_id", "target"}}

\* ... one of the descriptive fields, in a scan seen before or in a new one
LackFieldLines ==
    {Json(Full(ty, "c")) : ty \in AnyType} \cup
    {Json(Without(Full("progress", "c"), f)) : f \in {"template_path", "max_requests"}} \cup
    {Json(Without(Full("scan_end", "b_c"), "template_path"))}

Families ==
    {TimingLines, TypeLines, KeyLines, FieldLines, RawLines, ZoneLines,
     BadTimeLines, LackReadLines, LackKeyLines, LackFieldLines}

Logs == UNION {SeqsUpTo(F, MaxLen) : F \in Families}

Init ==
    /\ exists \in BOOLEAN
    /\ file \in Logs
    /\ exists = FALSE => file = <<>>
    /\ pc = "start"
    /\ events = <<>>
    /\ idx = 0
    /\ scan_groups = <<>>
    /\ placed = <<>>
    /\ completed_scans = <<>>
    /\ stats = NoStats
    /\ out = <<>>
    /\ status = -1
    /\ exc = ""
    /\ timestamps = <<>>
    /\ total_requests = 0
    /\ ret = NoReturn

Next ==
    \/ ParseFileNotFound
    \/ ParseJSONDecodeError
    \/ ParseEventsFile
    \/ GroupEvent
    \/ GroupEventRaises
    \/ FilterCompleted
    \/ ReportStatistics
    \/ ReportRaises
    \/ ReportNoCompleted

Spec == Init /\ [][Next]_vars

---------------------------------------------------------------------------
(* The lists calculate_mean_reqs_per_sec is called on *)

FlatTimes ==
    {TimeStr(c, "Z") : c \in Clocks}
    \cup {TimeStr(1, "+00:00:01"), TimeStr(0, ""), TimeStr(0, "garbage")}

FlatEvents ==
    {[time |-> t] : t \in FlatTimes}
    \cup {[time |-> t, max_requests |-> 3] : t \in FlatTimes}
    \cup {<<>>, [max_requests |-> 3]}

InitFlat ==
    /\ exists = FALSE
    /\ file = <<>>
    /\ pc = "flat_call"
    /\ events \in SeqsUpTo(FlatEvents, MaxFlatLen)
    /\ idx = 0
    /\ scan_groups = <<>>
    /\ placed = <<>>
    /\ completed_scans = <<>>
    /\ stats = NoStats
    /\ out = <<>>
    /\ status = -1
    /\ exc = ""
    /\ timestamps = <<>>
    /\ total_requests = 0
    /\ ret = NoReturn

NextFlat ==
    \/ FlatEmpty
    \/ FlatEnter
    \/ FlatStep
    \/ FlatStepRaises
    \/ FlatTooFew
    \/ FlatMinRaises
    \/ FlatReturn

SpecFlat == InitFlat /\ [][NextFlat]_vars

---------------------------------------------------------------------------
(* Statements about main.  They are written over sets and positions, not   *)
(* with the operators above that model the code's loops.                   *)

Finished == pc = "exited"
Succeeded == pc = "exited" /\ status = 0

\* the pass over the events is over and the counts were printed
AfterPass == "completed_scans" \in Range(out)

StatTags == Range(ResultLines)
CountTags == {"total_events", "unique_scans", "completed_scans"}
Printed(tags) == Range(out) \cap tags # {}

\* positions of the dict entries with both timestamps set
CompletedAt == {n \in 1..Len(scan_groups) :
                   scan_groups[n].start_time # None /\ scan_groups[n].end_time # None}

RECURSIVE BudgetOf(_)
BudgetOf(ns) ==
    IF ns = {} THEN 0
    ELSE LET n == CHOOSE m \in ns : TRUE
         IN scan_groups[n].max_requests + BudgetOf(ns \ {n})

InstantsOf(ns) ==
    {scan_groups[n].start_time[1] : n \in ns} \cup {scan_groups[n].end_time[1] : n \in ns}

Latest(ts) == CHOOSE t \in ts : \A u \in ts : u <= t
Earliest(ts) == CHOOSE t \in ts : \A u \in ts : t <= u
SpanOf(ts) == Latest(ts) - Earliest(ts)

\* positions in events of the events of one type that were filed under key k
Filed(k, ty) ==
    {n \in 1..Len(placed) : placed[n] = k /\ events[n].event_type = ty}

\* C1: when main finishes with a non-empty set of completed scans, the mean
\* requests/second it reports is the sum of max_requests, taken once per
\* completed group, divided by the span between the earliest and the latest
\* start/end timestamp of the completed groups, and the sum itself when that
\* span is 0.
C1_MeanOverCompletedScans ==
    (Succeeded /\ CompletedAt # {}) =>
        /\ stats.computed
        /\ stats.total_requests = BudgetOf(CompletedAt)
        /\ stats.total_seconds = SpanOf(InstantsOf(CompletedAt))
        /\ IF SpanOf(InstantsOf(CompletedAt)) = 0
           THEN RatEq(stats.mean_reqs_per_sec, Float(BudgetOf(CompletedAt)))
           ELSE RatEq(stats.mean_reqs_per_sec,
                      Rat(BudgetOf(CompletedAt), SpanOf(InstantsOf(CompletedAt))))

\* two completed scans with different budgets over a span that is not 0
C1_Witness ==
    /\ Succeeded
    /\ Cardinality(CompletedAt) = 2
    /\ \E m \in CompletedAt, n \in CompletedAt :
           scan_groups[m].max_requests # scan_groups[n].max_requests
    /\ SpanOf(InstantsOf(CompletedAt)) > 0
    /\ stats.total_requests = 5

\* C2: once the events are processed, a group is among the completed scans
\* exactly when a scan_start and a scan_end event were filed under its key,
\* in either order; the count printed is the number of such groups.
C2_CompletedIffStartAndEnd ==
    AfterPass =>
        /\ \A n \in 1..Len(scan_groups) :
               (scan_groups[n] \in Range(completed_scans)) <=>
                   /\ Filed(scan_groups[n].key, "scan_start") # {}
                   /\ Filed(scan_groups[n].key, "scan_end") # {}
        /\ Range(completed_scans) \subseteq Range(scan_groups)
        /\ Len(completed_scans) =
               Cardinality({k \in Range(placed) :
                   Filed(k, "scan_start") # {} /\ Filed(k, "scan_end") # {}})

\* a scan whose scan_end came before its scan_start is counted, and a scan
\* with a scan_start only is left out of the statistics
C2_Witness ==
    /\ Succeeded
    /\ Len(completed_scans) = 1
    /\ \E k \in Range(placed) :
           /\ Filed(k, "scan_start") # {} /\ Filed(k, "scan_end") # {}
           /\ \A a \in Filed(k, "scan_start"), b \in Filed(k, "scan_end") : b < a
    /\ \E k \in Range(placed) :
           Filed(k, "scan_start") # {} /\ Filed(k, "scan_end") = {}
    /\ stats.total_requests = BudgetOf(CompletedAt)

\* C3: two events are filed under the same group exactly when their
\* template_id and their target are the same.
C3_SameGroupIffSamePair ==
    \A m \in 1..Len(placed), n \in 1..Len(placed) :
        (placed[m] = placed[n]) <=>
            /\ events[m].template_id = events[n].template_id
            /\ events[m].target = events[n].target

\* the lines of the file that hold a record, and the record of such a line
RecordLines == {k \in 1..Len(file) : file[k].kind = "json"}
Rec(k) == file[k].obj

RequiredFields == {"time", "event_type", "template_id", "target",
                   "template_path", "max_requests"}

Unreadable == ~exists \/ \E k \in 1..Len(file) : file[k].kind = "garbage"

\* C4: if the input file does not exist or one of its non-blank lines is not
\* JSON, the run ends with exit status 1, the error message is the last
\* thing printed, and no event count, scan count or statistic is printed at
\* any point of the run.
C4_NoPartialResult ==
    Unreadable =>
        /\ status # 0
        /\ ~Printed(CountTags \cup StatTags \cup {"no_completed_scans"})
        /\ stats = NoStats
        /\ Finished =>
              /\ status = 1
              /\ out[Len(out)] = (IF exists THEN "error_parsing_json"
                                  ELSE "error_file_not_found")

\* the run ended on a line that is not JSON, after lines that parsed
C4_Witness ==
    /\ Finished
    /\ exists
    /\ Len(file) >= 3
    /\ file[1].kind = "json" /\ file[2].kind = "json"
    /\ file[3].kind = "garbage"
    /\ status = 1

\* every record has every required field and a timestamp that parses
WellFormed ==
    /\ exists
    /\ \A k \in 1..Len(file) : file[k].kind # "garbage"
    /\ \A k \in RecordLines :
           /\ RequiredFields \subseteq DOMAIN Rec(k)
           /\ Rec(k).time.zone \in {"Z", "+00:00", "+00:00:01", ""}

JoinedKey(e) == e.template_id \o "_" \o e.target

\* no scan_start record and scan_end record join to the same key
NoCompletedScan ==
    \A m \in RecordLines, n \in RecordLines :
        ~ /\ Rec(m).event_type = "scan_start"
          /\ Rec(n).event_type = "scan_end"
          /\ JoinedKey(Rec(m)) = JoinedKey(Rec(n))

\* C5: on a well-formed log without a completed scan, main never computes
\* the statistics, and it finishes with the 'no completed scans' message and
\* exit status 0.
C5_NoDataIsNotAnError ==
    \/ /\ stats = NoStats
       /\ ~Printed(StatTags)
       /\ exc = ""
       /\ Finished =>
             /\ status = 0
             /\ out[Len(out)] = "no_completed_scans"
    \/ ~(WellFormed /\ NoCompletedScan)

\* a log of a scan_start and a scan_end of two different scans
C5_Witness ==
    /\ Finished
    /\ Len(scan_groups) = 2
    /\ WellFormed /\ NoCompletedScan
    /\ \E m \in RecordLines : Rec(m).event_type = "scan_start"
    /\ \E n \in RecordLines : Rec(n).event_type = "scan_end"

Malformed(e) == "time" \in DOMAIN e /\ e.time.zone = "garbage"

\* C6 as stated: a run never finishes with exit status 0 when some event of
\* the log, of any event_type, has a malformed timestamp.
C6_AnyMalformedTimeIsFatal ==
    status = 0 => ~ \E k \in RecordLines : Malformed(Rec(k))

\* C6, amended: a run never finishes with exit status 0 when some scan_start
\* or scan_end event of the log has a malformed timestamp.
C6_MalformedLifecycleTimeIsFatal ==
    status = 0 =>
        ~ \E k \in RecordLines :
            /\ Malformed(Rec(k))
            /\ "event_type" \in DOMAIN Rec(k)
            /\ Rec(k).event_type \in {"scan_start", "scan_end"}

\* the run ended with ValueError at a scan_end that follows events that
\* were processed
C6_Witness ==
    /\ Finished
    /\ exc = "ValueError"
    /\ status = 1
    /\ idx = 3
    /\ Malformed(events[3]) /\ events[3].event_type = "scan_end"

\* the timestamp of the last event of type ty filed under key k, if any
LastStamp(k, ty) ==
    IF Filed(k, ty) = {} THEN None
    ELSE ParseTime(events[Latest(Filed(k, ty))])

\* C8: each group's start_time is the timestamp of the last scan_start event
\* filed under its key so far (None if there is none), and its end_time that
\* of the last scan_end event: a repeat overwrites, and events of another
\* type change neither.
C8_LastStartAndLastEndWin ==
    \A n \in 1..Len(scan_groups) :
        /\ scan_groups[n].start_time = LastStamp(scan_groups[n].key, "scan_start")
        /\ scan_groups[n].end_time = LastStamp(scan_groups[n].key, "scan_end")

\* after the pass, a group whose second scan_start is earlier than its first
\* and is followed by an event of another type
C8_Witness ==
    /\ AfterPass
    /\ Len(events) = 3
    /\ events[1].event_type = "scan_start" /\ events[2].event_type = "scan_start"
    /\ events[3].event_type = "progress"
    /\ ParseTime(events[2])[1] < ParseTime(events[1])[1]
    /\ Len(scan_groups) = 1
    /\ scan_groups[1].start_time = ParseTime(events[2])

\* the first event, in file order, that joins to key k
FirstWith(k) ==
    Earliest({m \in 1..Len(events) :
                 /\ {"template_id", "target"} \subseteq DOMAIN events[m]
                 /\ JoinedKey(events[m]) = k})

RECURSIVE FirstBudgetOf(_)
FirstBudgetOf(ns) ==
    IF ns = {} THEN 0
    ELSE LET n == CHOOSE m \in ns : TRUE
         IN events[FirstWith(scan_groups[n].key)].max_requests
               + FirstBudgetOf(ns \ {n})

\* C9: a group's template_id, target, template_path and max_requests are
\* those of the first event in file order with the group's key, whatever the
\* later events of that key hold, and the total of the report adds up these
\* first values.
C9_FirstEventSuppliesFields ==
    /\ \A n \in 1..Len(scan_groups) :
           LET e == events[FirstWith(scan_groups[n].key)] IN
           /\ scan_groups[n].template_id = e.template_id
           /\ scan_groups[n].target = e.target
           /\ scan_groups[n].template_path = e.template_path
           /\ scan_groups[n].max_requests = e.max_requests
    /\ stats.computed => stats.total_requests = FirstBudgetOf(CompletedAt)

\* a completed scan introduced by an event of another type, whose
\* scan_start and scan_end declare another path and budget
C9_Witness ==
    /\ Succeeded
    /\ Len(events) = 3
    /\ events[1].event_type = "progress" /\ events[1].max_requests = 1
    /\ events[2].event_type = "scan_start" /\ events[2].max_requests = 2
    /\ events[3].event_type = "scan_end" /\ events[3].template_path = "q"
    /\ stats.computed /\ stats.total_requests = 1

Lacks(k) == ~(RequiredFields \subseteq DOMAIN Rec(k))

\* C10 as stated: when some record lacks one of the required fields, the run
\* never reaches the statistics output or exit status 0.
C10_AnyLackIsFatal ==
    \/ status # 0 /\ ~Printed(StatTags)
    \/ ~ \E k \in RecordLines : Lacks(k)

HasPair(e) == {"template_id", "target"} \subseteq DOMAIN e

\* the record of line k lacks a field that the loop looks up for it
LacksRead(k) ==
    \/ ~HasPair(Rec(k))
    \/ "event_type" \notin DOMAIN Rec(k)
    \/ /\ "time" \notin DOMAIN Rec(k)
       /\ Rec(k).event_type \in {"scan_start", "scan_end"}
    \/ /\ ~({"template_path", "max_requests"} \subseteq DOMAIN Rec(k))
       /\ \A j \in RecordLines :
              (j < k /\ HasPair(Rec(j))) => JoinedKey(Rec(j)) # JoinedKey(Rec(k))

\* C10, amended: the run never reaches the statistics output or exit status
\* 0 when some record lacks template_id, target or event_type, or lacks time
\* and is a scan_start or scan_end, or lacks template_path or max_requests
\* and is the first record of its key; when the file parses and no
\* scan_start or scan_end has a malformed timestamp, the run then ends with
\* a KeyError.
C10_LackOfAFieldReadIsFatal ==
    \/ /\ status # 0
       /\ ~Printed(StatTags)
       /\ (Finished /\ exc # "KeyError") =>
              \/ Unreadable
              \/ \E k \in RecordLines :
                     /\ Malformed(Rec(k))
                     /\ "event_type" \in DOMAIN Rec(k)
                     /\ Rec(k).event_type \in {"scan_start", "scan_end"}
    \/ ~ \E k \in RecordLines : LacksRead(k)

\* the run ended with KeyError at the second record, the first of its key,
\* which lacks template_path
C10_Witness ==
    /\ Finished
    /\ exc = "KeyError"
    /\ idx = 2
    /\ "template_path" \notin DOMAIN events[2]
    /\ HasPair(events[2])
    /\ JoinedKey(events[2]) # JoinedKey(events[1])
    /\ Len(scan_groups) = 1

---------------------------------------------------------------------------
(* Statements about calculate_mean_reqs_per_sec *)

Called == pc \in {"returned", "raised"}

TimeOk(e) == "time" \in DOMAIN e /\ e.time.zone # "garbage"

RECURSIVE RequestsOf(_)
RequestsOf(ns) ==
    IF ns = {} THEN 0
    ELSE LET n == CHOOSE m \in ns : TRUE
         IN (IF "max_requests" \in DOMAIN events[n] THEN events[n].max_requests ELSE 1)
               + RequestsOf(ns \ {n})

AllRequests == RequestsOf(1..Len(events))
AllInstants == {ParseTime(events[n])[1] : n \in 1..Len(events)}

\* the value the claim gives for a list of two or more events
ReturnsTheFlatMean ==
    /\ ret.returned
    /\ IF SpanOf(AllInstants) = 0
       THEN ret.value = Float(AllRequests)
       ELSE RatEq(ret.value, Rat(AllRequests, SpanOf(AllInstants)))

\* C7 as stated: the function returns 0.0 for every list of 0 or 1 events,
\* and for 2 or more events with parseable timestamps the sum of
\* max_requests (1 where absent) over the span of the timestamps, or the sum
\* when the span is 0.
C7_FlatMeanAsStated ==
    Called =>
        /\ Len(events) <= 1 => ret = Return(Float(0))
        /\ (Len(events) >= 2 /\ \A n \in 1..Len(events) : TimeOk(events[n]))
              => ReturnsTheFlatMean

\* C7, amended: the function returns 0.0 for the empty list and for one
\* event whose time is present and parses; for 2 or more events whose
\* timestamps are present, parse and are all offset-aware or all naive, it
\* returns the sum of max_requests (1 where absent) over the span of the
\* timestamps, or the sum when the span is 0.
C7_FlatMean ==
    Called =>
        /\ events = <<>> => ret = Return(Float(0))
        /\ (Len(events) = 1 /\ TimeOk(events[1])) => ret = Return(Float(0))
        /\ (/\ Len(events) >= 2
            /\ \A n \in 1..Len(events) : TimeOk(events[n])
            /\ \A m \in 1..Len(events), n \in 1..Len(events) :
                   (events[m].time.zone = "") <=> (events[n].time.zone = ""))
              => ReturnsTheFlatMean

\* a list of three events, one without max_requests, over a span that is
\* not 0
C7_Witness ==
    /\ pc = "returned"
    /\ Len(events) = 3
    /\ \E n \in 1..3 : "max_requests" \notin DOMAIN events[n]
    /\ \E n \in 1..3 : "max_requests" \in DOMAIN events[n]
    /\ SpanOf(AllInstants) > 1
    /\ ret.value = Rat(5, 2)

====
